---- MODULE Spec2Model ----
(***************************************************************************)
(* Model of the RayWrapper registry and request dispatcher                 *)
(* (tests/testWrapper.py), hosting the example model classes MyDeployment  *)
(* (tests/testClass.py) and TextProcessor (tests/example_usage.py).        *)
(*                                                                         *)
(* Python methods are operators over `self`, the record of the three       *)
(* registry dictionaries; each returns the new `self`, the exception it    *)
(* raised (NoExc when it returned normally) and its return value.  The     *)
(* actions are the callers: they apply one method to the current registry. *)
(* Dictionaries are functions; a dictionary's key list is modelled by its  *)
(* key set (key order is not observed by any property below).              *)
(***************************************************************************)
EXTENDS Integers, Sequences, FiniteSets, TLC

VARIABLES models, model_functions, model_configs, call

vars == <<models, model_functions, model_configs, call>>

-----------------------------------------------------------------------------
(* Bounds *)

\* longest explicit function list
MaxSpecLen == 2
\* largest number of keyword arguments in a request
MaxParams == 1
\* largest number of entries in the `models` list of a configuration file
MaxConfigEntries == 2

-----------------------------------------------------------------------------
(* Python values *)

None == "<None>"
NoExc == "<no exception>"
EmptyDict == << >>

Range(f) == {f[i] : i \in DOMAIN f}

\* a str is kept as its sequence of characters, an int as its number
StrVal(chars) == [type |-> "str", chars |-> chars]
IntVal(n)     == [type |-> "int", n |-> n]
DictVal(items) == [type |-> "dict", items |-> items]
\* str(v), as a sequence of text chunks
PyStr(v) == IF v.type = "str" THEN v.chars ELSE <<ToString(v.n)>>
\* bool(v)
Truthy(v) ==
    CASE v.type = "str"  -> v.chars # << >>
      [] v.type = "int"  -> v.n # 0
      [] v.type = "dict" -> v.items # << >>

\* bool(s) for a request field that is None or a plain string
TruthyName(s) == s \notin {None, ""}

Min(a, b) == IF a <= b THEN a ELSE b
\* s[:n] for n >= 0
Prefix(s, n) == SubSeq(s, 1, Min(n, Len(s)))

\* the argument values requests carry (the strings hold no whitespace)
Values == {StrVal(<<"A", "d", "a">>), IntVal(2)}

\* a dictionary restricted to the keys other than k (del d[k])
Del(d, k) == [n \in DOMAIN d \ {k} |-> d[n]]
\* d[k] = v
Put(d, k, v) == [n \in DOMAIN d \cup {k} |-> IF n = k THEN v ELSE d[n]]
\* d.get(k, default)
Get(d, k, default) == IF k \in DOMAIN d THEN d[k] ELSE default

-----------------------------------------------------------------------------
(* The hosted model classes *)

Classes == {"MyDeployment", "TextProcessor"}

\* attributes defined by the class body (callables); "__init__" stands for
\* the underscore-prefixed callables that dir() also lists
ClassMethods(cls) ==
    CASE cls = "MyDeployment"  -> {"__init__", "say_hello", "say_goodbye", "get_info"}
      [] cls = "TextProcessor" -> {"__init__", "process_text", "summarize", "translate"}

\* inspect.signature of the bound method: parameter names, and those
\* without a default
Signature(cls, method) ==
    CASE cls = "MyDeployment" /\ method = "__init__" ->
            [parameters |-> <<"name">>, required |-> {"name"}]
      [] cls = "MyDeployment" /\ method \in {"say_hello", "say_goodbye"} ->
            [parameters |-> <<"name">>, required |-> {}]
      [] cls = "MyDeployment" /\ method = "get_info" ->
            [parameters |-> << >>, required |-> {}]
      [] cls = "TextProcessor" /\ method = "__init__" ->
            [parameters |-> <<"model_path", "device">>, required |-> {"model_path"}]
      [] cls = "TextProcessor" /\ method = "process_text" ->
            [parameters |-> <<"text", "max_length">>, required |-> {"text"}]
      [] cls = "TextProcessor" /\ method = "summarize" ->
            [parameters |-> <<"text", "max_words">>, required |-> {"text"}]
      [] cls = "TextProcessor" /\ method = "translate" ->
            [parameters |-> <<"text", "target_language">>, required |-> {"text"}]

\* Python's argument binding: keyword arguments kw fit the signature
Binds(sig, kw) ==
    /\ DOMAIN kw \subseteq Range(sig.parameters)
    /\ sig.required \subseteq DOMAIN kw

\* the instance attributes assigned by __init__(**kw)
InitFields(cls, kw) ==
    CASE cls = "MyDeployment"  -> [a \in {"_name"} |-> kw["name"]]
      [] cls = "TextProcessor" ->
            [a \in {"model_path", "device"} |->
                IF a = "model_path" THEN kw["model_path"]
                ELSE Get(kw, "device", StrVal(<<"c", "p", "u">>))]

\* a model object: its class and its instance attributes
NewObject(cls, kw) == [cls |-> cls, fields |-> InitFields(cls, kw)]

\* dir(obj)
Dir(obj) == ClassMethods(obj.cls) \cup DOMAIN obj.fields
\* hasattr(obj, name)
HasAttr(obj, name) == name \in Dir(obj)
\* callable(getattr(obj, name))
Callable(obj, name) == name \in ClassMethods(obj.cls)
\* name.startswith('_')
StartsWithUnderscore(name) == name \in {"__init__", "_name"}
\* getattr(obj, name): the bound method or the attribute value, kept as the
\* pair (object, attribute name)
GetAttr(obj, name) == [obj |-> obj, attr |-> name]

-----------------------------------------------------------------------------
(* Function specifications: a list of names, a dict exposed name -> method *)
(* name, or anything else (None)                                           *)

ListSpec(names) == [kind |-> "list", names |-> names, map |-> EmptyDict]
DictSpec(map)   == [kind |-> "dict", names |-> << >>, map |-> map]
NoneSpec        == [kind |-> "none", names |-> << >>, map |-> EmptyDict]

\* a functions table whose discovery takes every public attribute
FunctionTable_discover_attributes(model_instance, functions) ==
    IF functions.kind = "list"
    THEN [func_name \in {n \in Range(functions.names) : HasAttr(model_instance, n)}
              |-> GetAttr(model_instance, func_name)]
    ELSE IF functions.kind = "dict"
    THEN [func_name \in {n \in DOMAIN functions.map :
                            HasAttr(model_instance, functions.map[n])}
              |-> GetAttr(model_instance, functions.map[func_name])]
    ELSE [name \in {n \in Dir(model_instance) : ~StartsWithUnderscore(n)}
              |-> GetAttr(model_instance, name)]

\* a functions table whose rename map binds each method under its own name
FunctionTable_unrenamed(model_instance, functions) ==
    IF functions.kind = "list"
    THEN [func_name \in {n \in Range(functions.names) : HasAttr(model_instance, n)}
              |-> GetAttr(model_instance, func_name)]
    ELSE IF functions.kind = "dict"
    THEN [method_name \in {functions.map[n] : n \in
                             {n \in DOMAIN functions.map :
                                 HasAttr(model_instance, functions.map[n])}}
              |-> GetAttr(model_instance, method_name)]
    ELSE [name \in {n \in Dir(model_instance) :
                        Callable(model_instance, n) /\ ~StartsWithUnderscore(n)}
              |-> GetAttr(model_instance, name)]

\* the functions table register_model builds for model_instance
FunctionTable(model_instance, functions) ==
    IF functions.kind = "list"
    THEN [func_name \in {n \in Range(functions.names) : HasAttr(model_instance, n)}
              |-> GetAttr(model_instance, func_name)]
    ELSE IF functions.kind = "dict"
    THEN [func_name \in {n \in DOMAIN functions.map :
                            HasAttr(model_instance, functions.map[n])}
              |-> GetAttr(model_instance, functions.map[func_name])]
    ELSE [name \in {n \in Dir(model_instance) :
                        Callable(model_instance, n) /\ ~StartsWithUnderscore(n)}
              |-> GetAttr(model_instance, name)]

-----------------------------------------------------------------------------
(* RayWrapper: the registry methods *)

Returned(self, value) == [self |-> self, raised |-> NoExc, ret |-> value]
Raised(self, exc)     == [self |-> self, raised |-> exc, ret |-> None]
\* the outcome of a method together with str(e) of the exception it raised
\* (NoExc and the empty text when it returned None)
RaisedWith(self, exc, message) ==
    [self |-> self, raised |-> exc, ret |-> None, message |-> message]

\* RayWrapper.__init__ without a config_path
EmptyRegistry ==
    [models |-> EmptyDict, model_functions |-> EmptyDict, model_configs |-> EmptyDict]

\* register_model assigning fresh dictionaries that hold the one model
register_model_resetting(self, model_name, model_instance, functions) ==
    Returned([self EXCEPT
                 !.models = Put(EmptyDict, model_name, model_instance),
                 !.model_functions = Put(EmptyDict, model_name,
                                         FunctionTable(model_instance, functions))],
             None)

\* register_model patching the existing table instead of rebuilding it
register_model_merging(self, model_name, model_instance, functions) ==
    LET old == Get(self.model_functions, model_name, EmptyDict)
        new == FunctionTable(model_instance, functions)
    IN  Returned([self EXCEPT
                     !.models = Put(self.models, model_name, model_instance),
                     !.model_functions =
                         Put(self.model_functions, model_name,
                             [n \in DOMAIN old \cup DOMAIN new |->
                                 IF n \in DOMAIN new THEN new[n] ELSE old[n]])],
                 None)

register_model(self, model_name, model_instance, functions) ==
    Returned([self EXCEPT
                 !.models = Put(self.models, model_name, model_instance),
                 !.model_functions = Put(self.model_functions, model_name,
                                         FunctionTable(model_instance, functions))],
             None)

\* unregister_model without line 114: the model object is left behind
unregister_model_keeping_model(self, model_name) ==
    IF model_name \in DOMAIN self.models
    THEN Returned([self EXCEPT
                      !.model_functions = Del(self.model_functions, model_name),
                      !.model_configs = Del(self.model_configs, model_name)],
                  None)
    ELSE Returned(self, None)

\* unregister_model without line 115: the function table is left behind
unregister_model_keeping_table(self, model_name) ==
    IF model_name \in DOMAIN self.models
    THEN Returned([self EXCEPT
                      !.models = Del(self.models, model_name),
                      !.model_configs = Del(self.model_configs, model_name)],
                  None)
    ELSE Returned(self, None)

\* unregister_model deleting without the membership test
unregister_model_unguarded(self, model_name) ==
    IF model_name \notin DOMAIN self.models
    THEN Raised(self, "KeyError")
    ELSE Returned([self EXCEPT
                      !.models = Del(self.models, model_name),
                      !.model_functions = Del(self.model_functions, model_name),
                      !.model_configs = Del(self.model_configs, model_name)],
                  None)

unregister_model(self, model_name) ==
    IF model_name \in DOMAIN self.models
    THEN IF model_name \notin DOMAIN self.model_functions
         THEN Raised([self EXCEPT !.models = Del(self.models, model_name)], "KeyError")
         ELSE Returned([self EXCEPT
                           !.models = Del(self.models, model_name),
                           !.model_functions = Del(self.model_functions, model_name),
                           !.model_configs = Del(self.model_configs, model_name)],
                       None)
    ELSE Returned(self, None)

\* list_models iterating over the stored configurations
list_models_from_configs(self) ==
    [model_name \in DOMAIN self.model_configs |->
        [type      |-> self.models[model_name].cls,
         functions |-> DOMAIN Get(self.model_functions, model_name, EmptyDict),
         config    |-> Get(self.model_configs, model_name, EmptyDict)]]

list_models(self) ==
    [model_name \in DOMAIN self.models |->
        [type      |-> self.models[model_name].cls,
         functions |-> DOMAIN Get(self.model_functions, model_name, EmptyDict),
         config    |-> Get(self.model_configs, model_name, EmptyDict)]]

\* the modules importlib can import, with the classes each defines
Modules == [m \in {<<"testClass">>, <<"example_usage">>} |->
               IF m = <<"testClass">> THEN {"MyDeployment"} ELSE {"TextProcessor"}]

\* class_path.rsplit('.', 1) on a dotted path kept as its components
RSplit(class_path) ==
    IF Len(class_path) >= 2
    THEN <<SubSeq(class_path, 1, Len(class_path) - 1), class_path[Len(class_path)]>>
    ELSE <<class_path>>

_import_and_instantiate(class_path, init_params) ==
    LET parts == RSplit(class_path)
        wrap(cause) == [raised |-> "ValueError",
                        message |-> <<"Failed to import and instantiate ",
                                      class_path, ": ", cause>>,
                        ret |-> None]
    IN  IF Len(parts) # 2
        THEN wrap(<<"not enough values to unpack (expected 2, got 1)">>)
        ELSE IF parts[1] \notin DOMAIN Modules
        THEN wrap(<<"No module named '">> \o parts[1] \o <<"'">>)
        ELSE IF parts[2] \notin Modules[parts[1]]
        THEN wrap(<<"module '">> \o parts[1] \o <<"' has no attribute '", parts[2], "'">>)
        ELSE IF ~Binds(Signature(parts[2], "__init__"), init_params)
        THEN IF DOMAIN init_params \subseteq Range(Signature(parts[2], "__init__").parameters)
             THEN wrap(<<parts[2], ".__init__() missing a required positional argument">>)
             ELSE wrap(<<parts[2], ".__init__() got an unexpected keyword argument">>)
        ELSE [raised |-> NoExc, message |-> << >>,
              ret |-> NewObject(parts[2], init_params)]

\* register_model_from_config storing the configuration before the class is
\* instantiated
register_model_from_config_storing_first(self, model_config) ==
    IF "name" \notin DOMAIN model_config THEN RaisedWith(self, "KeyError", <<"'name'">>)
    ELSE IF "class_path" \notin DOMAIN model_config
    THEN RaisedWith(self, "KeyError", <<"'class_path'">>)
    ELSE
      LET model_name == model_config["name"]
          stored == [self EXCEPT !.model_configs =
                        Put(self.model_configs, model_name, model_config)]
          inst == _import_and_instantiate(model_config["class_path"],
                                          Get(model_config, "init_params", EmptyDict))
      IN  IF inst.raised # NoExc THEN RaisedWith(stored, inst.raised, inst.message)
          ELSE RaisedWith(register_model(stored, model_name, inst.ret,
                                         Get(model_config, "functions",
                                             ListSpec(<< >>))).self,
                          NoExc, << >>)

register_model_from_config(self, model_config) ==
    IF "name" \notin DOMAIN model_config THEN RaisedWith(self, "KeyError", <<"'name'">>)
    ELSE IF "class_path" \notin DOMAIN model_config
    THEN RaisedWith(self, "KeyError", <<"'class_path'">>)
    ELSE
      LET model_name == model_config["name"]
          model_class_path == model_config["class_path"]
          model_init_params == Get(model_config, "init_params", EmptyDict)
          functions == Get(model_config, "functions", ListSpec(<< >>))
          inst == _import_and_instantiate(model_class_path, model_init_params)
      IN  IF inst.raised # NoExc THEN RaisedWith(self, inst.raised, inst.message)
          ELSE LET reg == register_model(self, model_name, inst.ret, functions).self
               IN  RaisedWith([reg EXCEPT !.model_configs =
                                  Put(reg.model_configs, model_name, model_config)],
                              NoExc, << >>)

\* the loop of load_config over the entries of the `models` list: it ends at
\* the first entry whose registration raises, the entries before it staying
\* registered
RECURSIVE RegisterEach(_, _)
RegisterEach(self, entries) ==
    IF entries = << >> THEN Returned(self, None)
    ELSE LET r == register_model_from_config(self, Head(entries))
         IN  IF r.raised # NoExc THEN r
             ELSE RegisterEach(r.self, Tail(entries))

\* load_config on a file whose content is `document`: text that
\* yaml.safe_load rejects ("malformed"), or a mapping.  `warning` is the
\* exception the method printed instead of raising
load_config(self, document) ==
    LET Warned(after, exc) ==
            [self |-> after, raised |-> NoExc, ret |-> None, warning |-> exc]
    IN  IF document.kind = "malformed"
        THEN Warned(self, "YAMLError")
        ELSE LET r == RegisterEach(self, Get(document.data, "models", << >>))
             IN  Warned(r.self, r.raised)

\* func.__doc__
Doc(cls, method) ==
    CASE method = "__init__"     -> None
      [] method = "say_hello"    -> "Say hello to a specific name or use the default name"
      [] method = "say_goodbye"  -> "Say goodbye to a specific name or use the default name"
      [] method = "get_info"     -> "Get information about the deployment"
      [] method = "process_text" -> "Process text and return processed result"
      [] method = "summarize"    -> "Summarize text"
      [] method = "translate"    -> "Translate text (mock implementation)"

\* get_function_signature reporting every miss as a missing function
get_function_signature_confused(self, model_name, function_name) ==
    IF function_name \notin DOMAIN Get(self.model_functions, model_name, EmptyDict)
    THEN Returned(self, [error |-> <<"Function '", function_name, "' not found">>])
    ELSE LET func == self.model_functions[model_name][function_name]
         IN  IF ~Callable(func.obj, func.attr)
             THEN Raised(self, "TypeError")
             ELSE Returned(self,
                     [name       |-> function_name,
                      signature  |-> Signature(func.obj.cls, func.attr),
                      parameters |-> Signature(func.obj.cls, func.attr).parameters,
                      doc        |-> "No documentation available"])

get_function_signature(self, model_name, function_name) ==
    IF model_name \notin DOMAIN self.model_functions
    THEN Returned(self, [error |-> <<"Model '", model_name, "' not found">>])
    ELSE IF function_name \notin DOMAIN self.model_functions[model_name]
    THEN Returned(self, [error |-> <<"Function '", function_name, "' not found">>])
    ELSE LET func == self.model_functions[model_name][function_name]
         IN  IF ~Callable(func.obj, func.attr)
             THEN Raised(self, "TypeError")
             ELSE LET sig == Signature(func.obj.cls, func.attr)
                      doc == Doc(func.obj.cls, func.attr)
                  IN  Returned(self,
                         [name       |-> function_name,
                          signature  |-> sig,
                          parameters |-> sig.parameters,
                          doc        |-> IF doc = None
                                         THEN "No documentation available"
                                         ELSE doc])

-----------------------------------------------------------------------------
(* Calling a bound attribute *)

Raise(type, message) == [raised |-> type, message |-> message, ret |-> None]
Return(value)        == [raised |-> NoExc, message |-> << >>, ret |-> value]

\* the body of cls.method run on obj with keyword arguments kw that bind
MethodBody(obj, method, kw) ==
    CASE method \in {"say_hello", "say_goodbye"} ->
            LET word == IF method = "say_hello" THEN "Hello " ELSE "Goodbye "
            IN  IF "name" \in DOMAIN kw /\ Truthy(kw["name"])
                THEN Return(StrVal(<<word>> \o PyStr(kw["name"])))
                ELSE Return(StrVal(<<word>> \o PyStr(obj.fields["_name"])))
      [] method = "get_info" ->
            Return(DictVal([name |-> obj.fields["_name"],
                            type |-> StrVal(<<"MyDeployment">>)]))
      [] method = "process_text" ->
            LET text == kw["text"]
                max_length == Get(kw, "max_length", IntVal(100))
            IN  IF text.type # "str"
                THEN Raise("TypeError", <<"'int' object is not subscriptable">>)
                ELSE IF max_length.type # "int"
                THEN Raise("TypeError", <<"slice indices must be integers">>)
                ELSE Return(StrVal(<<"Processed: ">> \o Prefix(text.chars, max_length.n)))
      [] method = "summarize" ->
            LET text == kw["text"]
                max_words == Get(kw, "max_words", IntVal(50))
            IN  IF text.type # "str"
                THEN Raise("AttributeError", <<"'int' object has no attribute 'split'">>)
                ELSE IF max_words.type # "int"
                THEN Raise("TypeError", <<"slice indices must be integers">>)
                ELSE IF max_words.n = 0 \/ text.chars = << >>
                THEN Return(StrVal(<<"Summary: ">>))
                ELSE Return(StrVal(<<"Summary: ">> \o text.chars))
      [] method = "translate" ->
            Return(StrVal(<<"Translated to ">>
                          \o PyStr(Get(kw, "target_language", StrVal(<<"e", "s">>)))
                          \o <<": ">> \o PyStr(kw["text"])))

\* a call that never passes the parameters on
CallFunction_without_parameters(func, parameters) ==
    LET kw == EmptyDict
    IN  IF Truthy(parameters) /\ parameters.type # "dict"
        THEN Raise("TypeError", <<"argument after ** must be a mapping">>)
        ELSE IF ~Callable(func.obj, func.attr)
        THEN Raise("TypeError", <<"object is not callable">>)
        ELSE IF ~Binds(Signature(func.obj.cls, func.attr), kw)
        THEN Raise("TypeError", <<"unexpected or missing argument">>)
        ELSE MethodBody(func.obj, func.attr, kw)

\* target_function(**parameters), or target_function() for falsy parameters
CallFunction(func, parameters) ==
    LET kw == IF Truthy(parameters) THEN parameters.items ELSE EmptyDict
    IN  IF Truthy(parameters) /\ parameters.type # "dict"
        THEN Raise("TypeError", <<"argument after ** must be a mapping">>)
        ELSE IF ~Callable(func.obj, func.attr)
        THEN Raise("TypeError", <<"object is not callable">>)
        ELSE IF ~Binds(Signature(func.obj.cls, func.attr), kw)
        THEN Raise("TypeError", <<"unexpected or missing argument">>)
        ELSE MethodBody(func.obj, func.attr, kw)

-----------------------------------------------------------------------------
(* RayWrapper.__call__: the dispatcher *)

\* a request: the HTTP method, what the POST body decodes to ("object",
\* "array", or "invalid" when it is not JSON) and the decoded dictionary
\* (for a GET, the query parameters)
Request(method, body, data) == [method |-> method, body |-> body, data |-> data]

\* the response and the bound attributes the handler called to produce it
Response(self, value, invoked) ==
    [self |-> self, raised |-> NoExc, ret |-> value, invoked |-> invoked]

\* the handler without its outer `except Exception`
FailurePropagates(self, type, message, invoked) ==
    [self |-> self, raised |-> type, ret |-> None, invoked |-> invoked]

\* an outer handler that empties the registry when a request fails
Failure_clearing_registry(self, type, message, invoked) ==
    Response(EmptyRegistry, [error |-> message, type |-> type], invoked)

\* the response of the outer `except Exception`
Failure(self, type, message, invoked) ==
    Response(self, [error |-> message, type |-> type], invoked)

\* an inner handler written `except ValueError`
CaughtAsMismatchValueError(exc) == exc = "ValueError"

\* `except TypeError`: the exceptions the inner handler takes for a
\* signature mismatch
CaughtAsMismatch(exc) == exc = "TypeError"

\* the validations with the registry lookups ahead of the presence tests
ValidateInvokeRegistryFirst(self, model_name, function_name) ==
    LET Reject(response) == [rejected |-> TRUE, response |-> response]
    IN  IF TruthyName(model_name) /\ model_name \notin DOMAIN self.models
        THEN Reject(Response(self, [error |-> <<"Model '", model_name, "' not found">>,
                                    available_models |-> DOMAIN self.models], << >>))
        ELSE IF ~TruthyName(function_name)
        THEN Reject(Response(self, [error |-> <<"Function name is required">>], << >>))
        ELSE IF ~TruthyName(model_name)
        THEN Reject(Response(self, [error |-> <<"Model name is required">>,
                                    available_models |-> DOMAIN self.models], << >>))
        ELSE IF function_name \notin DOMAIN Get(self.model_functions, model_name, EmptyDict)
        THEN Reject(Response(self,
                     [error |-> <<"Function '", function_name,
                                  "' not found for model '", model_name, "'">>,
                      available_functions |->
                          DOMAIN Get(self.model_functions, model_name, EmptyDict)],
                     << >>))
        ELSE [rejected |-> FALSE, response |-> None]

\* the validations of an invoke request, in the handler's order: the
\* rejection to return, or none
ValidateInvoke(self, model_name, function_name) ==
    LET Reject(response) == [rejected |-> TRUE, response |-> response]
    IN  IF ~TruthyName(model_name)
        THEN Reject(Response(self, [error |-> <<"Model name is required">>,
                                    available_models |-> DOMAIN self.models], << >>))
        ELSE IF ~TruthyName(function_name)
        THEN Reject(Response(self, [error |-> <<"Function name is required">>], << >>))
        ELSE IF model_name \notin DOMAIN self.models
        THEN Reject(Response(self, [error |-> <<"Model '", model_name, "' not found">>,
                                    available_models |-> DOMAIN self.models], << >>))
        ELSE IF function_name \notin DOMAIN Get(self.model_functions, model_name, EmptyDict)
        THEN IF model_name \notin DOMAIN self.model_functions
             THEN Reject(Failure(self, "KeyError", <<"'", model_name, "'">>, << >>))
             ELSE Reject(Response(self,
                     [error |-> <<"Function '", function_name,
                                  "' not found for model '", model_name, "'">>,
                      available_functions |-> DOMAIN self.model_functions[model_name]],
                     << >>))
        ELSE [rejected |-> FALSE, response |-> None]

\* a handler that calls the target again when its call raised
InvokeTarget_retrying(self, model_name, function_name, parameters) ==
    LET target_function == self.model_functions[model_name][function_name]
        r == CallFunction(target_function, parameters)
    IN  IF r.raised = NoExc
        THEN Response(self, [result     |-> r.ret,
                             model      |-> model_name,
                             function   |-> function_name,
                             parameters |-> parameters],
                      <<target_function>>)
        ELSE Failure(self, r.raised, r.message, <<target_function, target_function>>)

\* the call of the target function and the response built from its outcome
InvokeTarget(self, model_name, function_name, parameters) ==
    LET target_function == self.model_functions[model_name][function_name]
        r == CallFunction(target_function, parameters)
    IN  IF r.raised = NoExc
        THEN Response(self, [result     |-> r.ret,
                             model      |-> model_name,
                             function   |-> function_name,
                             parameters |-> parameters],
                      <<target_function>>)
        ELSE IF CaughtAsMismatch(r.raised)
        THEN IF ~Callable(target_function.obj, target_function.attr)
             THEN Failure(self, "TypeError", <<"is not a callable object">>,
                          <<target_function>>)
             ELSE Response(self,
                     [error |-> <<"Function signature mismatch: ">> \o r.message,
                      expected_signature |->
                          Signature(target_function.obj.cls, target_function.attr),
                      provided_parameters |-> parameters],
                     <<target_function>>)
        ELSE Failure(self, r.raised, r.message, <<target_function>>)

__call__(self, request) ==
    IF request.method = "POST" /\ request.body = "invalid"
    THEN Failure(self, "JSONDecodeError", <<"Expecting value">>, << >>)
    ELSE IF request.method = "POST" /\ request.body = "array"
    THEN Failure(self, "AttributeError",
                 <<"'list' object has no attribute 'get'">>, << >>)
    ELSE
    LET data == request.data
        action == Get(data, "action", None)
        model_name == Get(data, "model", None)
        function_name == Get(data, "function", None)
        parameters == Get(data, "parameters", DictVal(EmptyDict))
    IN  IF action = "list_models"
        THEN Response(self, [models |-> list_models(self)], << >>)
        ELSE IF action = "function_signature"
        THEN IF TruthyName(model_name) /\ TruthyName(function_name)
             THEN LET r == get_function_signature(self, model_name, function_name)
                  IN  IF r.raised # NoExc
                      THEN Failure(self, r.raised, <<"is not a callable object">>, << >>)
                      ELSE Response(self, r.ret, << >>)
             ELSE Response(self,
                     [error |-> <<"Both 'model' and 'function' parameters required for function_signature action">>],
                     << >>)
        ELSE LET v == ValidateInvoke(self, model_name, function_name)
             IN  IF v.rejected THEN v.response
                 ELSE InvokeTarget(self, model_name, function_name, parameters)

\* the positions the handler passes through for a request: "Received" at
\* its entry, "Parsed" once `data` is decoded (line 156), "Routed" once the
\* branch for the action is taken (lines 160-173), "Rejected" at a return
\* of a failed validation (lines 168, 177, 180, 184, 190), "Invoked" at the
\* call of the target function (lines 201-203), "Responded" at its return
Path(self, request) ==
    IF request.method = "POST" /\ request.body = "invalid"
    THEN <<"Received", "Responded">>
    ELSE IF request.method = "POST" /\ request.body = "array"
    THEN <<"Received", "Parsed", "Responded">>
    ELSE
    LET data == request.data
        action == Get(data, "action", None)
        model_name == Get(data, "model", None)
        function_name == Get(data, "function", None)
    IN  IF action = "list_models"
        THEN <<"Received", "Parsed", "Routed", "Responded">>
        ELSE IF action = "function_signature"
        THEN IF TruthyName(model_name) /\ TruthyName(function_name)
             THEN <<"Received", "Parsed", "Routed", "Responded">>
             ELSE <<"Received", "Parsed", "Routed", "Rejected", "Responded">>
        ELSE IF ValidateInvoke(self, model_name, function_name).rejected
        THEN <<"Received", "Parsed", "Routed", "Rejected", "Responded">>
        ELSE <<"Received", "Parsed", "Routed", "Invoked", "Responded">>

-----------------------------------------------------------------------------
(* Inputs *)

ModelNames == {"greeter", "text_processor"}

\* names a caller may declare in a function list, or as a method to rename:
\* a method of each class, a public data attribute and a name no class has
FunctionNames == {"say_hello", "process_text", "device", "missing"}
\* the exposed names a rename map may introduce
ExposedNames == {"hello"}

\* one list (without repetition) of each set of at most n names of S
RECURSIVE SeqOf(_)
SeqOf(S) == IF S = {} THEN << >>
            ELSE LET x == CHOOSE x \in S : TRUE IN <<x>> \o SeqOf(S \ {x})
ListsUpTo(S, n) == {SeqOf(T) : T \in {T \in SUBSET S : Cardinality(T) <= n}}
\* the dictionaries with at most n keys from K and values from V
DictsUpTo(K, V, n) ==
    UNION {[D -> V] : D \in {D \in SUBSET K : Cardinality(D) <= n}}

ListSpecs == {ListSpec(names) : names \in ListsUpTo(FunctionNames, MaxSpecLen)}
DictSpecs == {DictSpec(map) : map \in DictsUpTo(ExposedNames, FunctionNames \ {"device"}, 1)}
FunctionSpecs == ListSpecs \cup DictSpecs \cup {NoneSpec}

\* the constructor arguments the callers use
DefaultInit(cls) ==
    IF cls = "MyDeployment"
    THEN [a \in {"name"} |-> StrVal(<<"A", "d", "a">>)]
    ELSE [a \in {"model_path"} |-> StrVal(<<"/", "m">>)]

\* the model objects callers construct and hand to register_model
Objects == {NewObject(cls, DefaultInit(cls)) : cls \in Classes}

ClassPaths == {<<"testClass", "MyDeployment">>, <<"example_usage", "TextProcessor">>,
               <<"testClass", "Missing">>, <<"nomodule", "Thing">>, <<"Bare">>}

\* a configuration entry is a dictionary; every key may be absent
ConfigEntries(namesIn, pathsIn, initsIn, functionsIn) ==
    UNION {UNION {UNION {
        {[k \in keys |-> CASE k = "name" -> n
                           [] k = "class_path" -> c
                           [] k = "init_params" -> i
                           [] k = "functions" -> f] :
             keys \in {ks \in SUBSET {"name", "class_path", "init_params", "functions"} :
                         \/ {"name", "class_path"} \subseteq ks
                         \/ ks \in {{"name"}, {"class_path"}}}}
        : f \in functionsIn} : i \in initsIn} :
        <<n, c>> \in namesIn \X pathsIn}

ModelConfigs ==
    ConfigEntries(ModelNames, ClassPaths,
                  {DefaultInit(cls) : cls \in Classes},
                  {ListSpec(<<"say_hello", "process_text">>)})

\* the entries configuration files list: one for each class, one whose class
\* does not exist, one without a name and one without a class_path
FileEntries ==
    LET functions == ListSpec(<<"say_hello", "process_text">>)
        Entry(n, c, i) == [k \in {"name", "class_path", "init_params", "functions"} |->
                              CASE k = "name" -> n
                                [] k = "class_path" -> c
                                [] k = "init_params" -> i
                                [] k = "functions" -> functions]
    IN  {Entry("greeter", <<"testClass", "MyDeployment">>, DefaultInit("MyDeployment")),
         Entry("text_processor", <<"example_usage", "TextProcessor">>,
               DefaultInit("TextProcessor")),
         Entry("greeter", <<"testClass", "Missing">>, DefaultInit("MyDeployment")),
         [k \in {"name"} |-> "greeter"],
         [k \in {"class_path"} |-> <<"testClass", "MyDeployment">>]}

\* the sequences of at most n elements of S
SeqsUpTo(S, n) == UNION {[1..k -> S] : k \in 0..n}

\* the contents of configuration files: text that is not YAML, a mapping
\* without `models`, and mappings with a `models` list
ConfigDocuments ==
    {[kind |-> "malformed", data |-> EmptyDict],
     [kind |-> "mapping", data |-> EmptyDict]}
    \cup {[kind |-> "mapping", data |-> [k \in {"models"} |-> entries]] :
             entries \in SeqsUpTo(FileEntries, MaxConfigEntries)}

\* the keyword arguments of requests
ParamNames == {"text", "name"}
Parameters ==
    {DictVal(kw) : kw \in DictsUpTo(ParamNames, Values, MaxParams)}
    \cup {StrVal(<<"x">>)}

\* the dictionaries over the given keys whose values come from the given
\* set of each key
RequestData(keys, actions, modelsIn, functionsIn, parametersIn) ==
    {[k \in keys |-> CASE k = "action" -> x[1]
                       [] k = "model" -> x[2]
                       [] k = "function" -> x[3]
                       [] k = "parameters" -> x[4]] :
        x \in actions \X modelsIn \X functionsIn \X parametersIn}

RequestModels == ModelNames \cup {""}
RequestFunctions == {"say_hello", "process_text", "summarize", "device", "hello"}

\* decoded request dictionaries: list_models, function_signature and invoke
\* requests, with and without their model, function and parameters keys
ListData == RequestData({"action"}, {"list_models"}, {None}, {None}, {None})
SignatureData ==
    UNION {RequestData({"action"} \cup keys, {"function_signature"},
                       RequestModels, RequestFunctions, {None}) :
             keys \in SUBSET {"model", "function"}}
InvokeData(parametersIn) ==
    UNION {RequestData(keys, {None}, RequestModels, RequestFunctions, parametersIn) :
             keys \in SUBSET {"model", "function", "parameters"}}

Requests ==
    {Request("POST", "invalid", EmptyDict), Request("POST", "array", EmptyDict)}
    \cup {Request("POST", "object", d) :
            d \in ListData \cup SignatureData \cup InvokeData(Parameters)}
    \cup {Request("GET", "object", d) :
            d \in ListData
                   \cup RequestData({"model", "function", "parameters"}, {None},
                                    RequestModels, RequestFunctions,
                                    {StrVal(<<"x">>), StrVal(<< >>)})}

-----------------------------------------------------------------------------
(* The callers: one action per method of the deployment *)

Self == [models |-> models, model_functions |-> model_functions,
         model_configs |-> model_configs]

\* the registry becomes what the method left in self
Becomes(self) ==
    /\ models' = self.models
    /\ model_functions' = self.model_functions
    /\ model_configs' = self.model_configs

\* what a call found registered under model_name
Found(model_name) ==
    [registered |-> model_name \in DOMAIN models,
     functions  |-> DOMAIN Get(model_functions, model_name, EmptyDict),
     has_config |-> model_name \in DOMAIN model_configs]

\* no call in progress
Idle == [op |-> "idle"]

Init ==
    /\ models = EmptyRegistry.models
    /\ model_functions = EmptyRegistry.model_functions
    /\ model_configs = EmptyRegistry.model_configs
    /\ call = Idle

RegisterModel ==
    /\ call = Idle
    /\ \E model_name \in ModelNames, model_instance \in Objects, functions \in FunctionSpecs :
        LET r == register_model(Self, model_name, model_instance, functions)
        IN  /\ Becomes(r.self)
            /\ call' = [op |-> "register_model", model_name |-> model_name,
                        model_instance |-> model_instance, functions |-> functions,
                        found |-> Found(model_name), raised |-> r.raised]

RegisterModelFromConfig ==
    /\ call = Idle
    /\ \E model_config \in ModelConfigs :
        LET r == register_model_from_config(Self, model_config)
        IN  /\ Becomes(r.self)
            /\ call' = [op |-> "register_model_from_config",
                        model_config |-> model_config,
                        found |-> Found(Get(model_config, "name", None)),
                        raised |-> r.raised, message |-> r.message]

LoadConfig ==
    /\ call = Idle
    /\ \E document \in ConfigDocuments :
        LET r == load_config(Self, document)
        IN  /\ Becomes(r.self)
            /\ call' = [op |-> "load_config", document |-> document,
                        raised |-> r.raised, warning |-> r.warning]

UnregisterModel ==
    /\ call = Idle
    /\ \E model_name \in ModelNames :
        LET r == unregister_model(Self, model_name)
        IN  /\ Becomes(r.self)
            /\ call' = [op |-> "unregister_model", model_name |-> model_name,
                        found |-> Found(model_name), raised |-> r.raised]

ListModels ==
    /\ call = Idle
    /\ UNCHANGED <<models, model_functions, model_configs>>
    /\ call' = [op |-> "list_models", raised |-> NoExc, ret |-> list_models(Self)]

GetFunctionSignature ==
    /\ call = Idle
    /\ \E model_name \in ModelNames, function_name \in RequestFunctions :
        LET r == get_function_signature(Self, model_name, function_name)
        IN  /\ Becomes(r.self)
            /\ call' = [op |-> "get_function_signature", model_name |-> model_name,
                        function_name |-> function_name,
                        raised |-> r.raised, ret |-> r.ret]

Call ==
    /\ call = Idle
    /\ \E request \in Requests :
        LET r == __call__(Self, request)
        IN  /\ Becomes(r.self)
            /\ call' = [op |-> "__call__", request |-> request,
                        raised |-> r.raised, ret |-> r.ret, invoked |-> r.invoked,
                        path |-> Path(Self, request)]

\* the call returns to its caller (the response is sent)
Complete ==
    /\ call # Idle
    /\ call' = Idle
    /\ UNCHANGED <<models, model_functions, model_configs>>

Next ==
    \/ RegisterModel
    \/ RegisterModelFromConfig
    \/ LoadConfig
    \/ UnregisterModel
    \/ ListModels
    \/ GetFunctionSignature
    \/ Call
    \/ Complete

Spec == Init /\ [][Next]_vars

-----------------------------------------------------------------------------
(* Interleaved execution: one mutation of the registry and one lookup, both *)
(* for the same model name, run statement by statement on a host that runs  *)
(* the methods in parallel.  The methods take no lock.  Here `call` holds   *)
(* the progress of the two methods: `pc` is the source line each is about   *)
(* to run, 0 once it has run its last statement.                            *)

\* the model name the mutation and the lookup are about
SharedName == "greeter"
\* the function specifications and configurations the mutations use
SharedSpecs == {ListSpec(<<"say_hello", "process_text">>), NoneSpec}
SharedConfigs == {c \in FileEntries : {"name", "class_path"} \subseteq DOMAIN c
                                        /\ c["name"] = SharedName}
\* the functions the dispatcher requests ask for
SharedFunctions == {"say_hello", "process_text"}

\* d[k] when k is a key of d, and that it is not otherwise
Opt(d, k) == IF k \in DOMAIN d THEN [present |-> TRUE, value |-> d[k]]
             ELSE [present |-> FALSE]
\* the entry of model_name: its object, function table and configuration
Entry(self, model_name) ==
    [model  |-> Opt(self.models, model_name),
     table  |-> Opt(self.model_functions, model_name),
     config |-> Opt(self.model_configs, model_name)]

NoWriter == [op |-> "idle", pc |-> 0]
NoReader == [op |-> "idle", pc |-> 0, function_name |-> None, seen |-> << >>,
             overlap |-> FALSE]
\* the entry before the latest mutation started, and the entry that
\* mutation leaves when it runs alone
Mutation(pre, post) == [pre |-> pre, post |-> post]

ConcInit ==
    /\ models = EmptyRegistry.models
    /\ model_functions = EmptyRegistry.model_functions
    /\ model_configs = EmptyRegistry.model_configs
    /\ call = [op |-> "interleaving", writer |-> NoWriter, reader |-> NoReader,
               mutation |-> Mutation(Entry(EmptyRegistry, SharedName),
                                     Entry(EmptyRegistry, SharedName))]

\* a mutation starts: at most one mutation runs at a time, and at most one
\* overlaps a lookup
StartWriter(writer, post) ==
    /\ ~call.reader.overlap
    /\ call' = [call EXCEPT
                  !.writer = writer,
                  !.mutation = Mutation(Entry(Self, SharedName), post),
                  !.reader.overlap = (call.reader.op # "idle")]
    /\ UNCHANGED <<models, model_functions, model_configs>>

StartRegisterModel ==
    /\ call.writer = NoWriter
    /\ \E model_instance \in Objects, functions \in SharedSpecs :
        StartWriter([op |-> "register_model", pc |-> 86, model_name |-> SharedName,
                     model_instance |-> model_instance, functions |-> functions],
                    Entry(register_model(Self, SharedName, model_instance,
                                         functions).self, SharedName))

\* lines 45-51 work on local values only; the method goes on to register_model
\* when the class was instantiated and raises otherwise
StartRegisterModelFromConfig ==
    /\ call.writer = NoWriter
    /\ \E model_config \in SharedConfigs :
        LET inst == _import_and_instantiate(model_config["class_path"],
                                            Get(model_config, "init_params", EmptyDict))
            post == Entry(register_model_from_config(Self, model_config).self, SharedName)
        IN  IF inst.raised # NoExc
            THEN StartWriter([op |-> "register_model_from_config", pc |-> 0,
                              model_config |-> model_config], post)
            ELSE StartWriter([op |-> "register_model_from_config", pc |-> 86,
                              model_config |-> model_config,
                              model_name |-> model_config["name"],
                              model_instance |-> inst.ret,
                              functions |-> Get(model_config, "functions", ListSpec(<< >>))],
                             post)

StartUnregisterModel ==
    /\ call.writer = NoWriter
    /\ StartWriter([op |-> "unregister_model", pc |-> 113, model_name |-> SharedName],
                Entry(unregister_model(Self, SharedName).self, SharedName))

\* the writer is about to run line `pc`
WriterAt(pc) == call.writer.op # "idle" /\ call.writer.pc = pc
WriterGoes(pc) == call' = [call EXCEPT !.writer.pc = pc]

\* self.models[model_name] = model_instance
StoreModel ==
    /\ WriterAt(86)
    /\ models' = Put(models, call.writer.model_name, call.writer.model_instance)
    /\ WriterGoes(89)
    /\ UNCHANGED <<model_functions, model_configs>>

\* self.model_functions[model_name] = {...}: the table is built, then stored
StoreFunctions ==
    /\ WriterAt(89)
    /\ model_functions' = Put(model_functions, call.writer.model_name,
                              FunctionTable(call.writer.model_instance,
                                            call.writer.functions))
    /\ WriterGoes(IF call.writer.op = "register_model_from_config" THEN 57 ELSE 0)
    /\ UNCHANGED <<models, model_configs>>

\* self.model_configs[model_name] = model_config
StoreConfig ==
    /\ WriterAt(57)
    /\ model_configs' = Put(model_configs, call.writer.model_name,
                            call.writer.model_config)
    /\ WriterGoes(0)
    /\ UNCHANGED <<models, model_functions>>

\* if model_name in self.models
TestRegistered ==
    /\ WriterAt(113)
    /\ WriterGoes(IF call.writer.model_name \in DOMAIN models THEN 114 ELSE 0)
    /\ UNCHANGED <<models, model_functions, model_configs>>

\* del self.models[model_name]
DeleteModel ==
    /\ WriterAt(114)
    /\ models' = Del(models, call.writer.model_name)
    /\ WriterGoes(115)
    /\ UNCHANGED <<model_functions, model_configs>>

\* del self.model_functions[model_name]
DeleteFunctions ==
    /\ WriterAt(115)
    /\ model_functions' = Del(model_functions, call.writer.model_name)
    /\ WriterGoes(IF call.writer.model_name \in DOMAIN model_functions THEN 116 ELSE 0)
    /\ UNCHANGED <<models, model_configs>>

\* if model_name in self.model_configs: del self.model_configs[model_name]
DeleteConfig ==
    /\ WriterAt(116)
    /\ model_configs' = Del(model_configs, call.writer.model_name)
    /\ WriterGoes(0)
    /\ UNCHANGED <<models, model_functions>>

WriterReturns ==
    /\ call.writer.op # "idle"
    /\ call.writer.pc = 0
    /\ call' = [call EXCEPT !.writer = NoWriter]
    /\ UNCHANGED <<models, model_functions, model_configs>>

\* a lookup starts; it overlaps the mutation that has not returned yet
StartReader(op, pc, function_name) ==
    /\ call' = [call EXCEPT
                  !.reader = [op |-> op, pc |-> pc, function_name |-> function_name,
                              seen |-> << >>,
                              overlap |-> (call.writer.op # "idle")]]
    /\ UNCHANGED <<models, model_functions, model_configs>>

\* an invoke request for a function of SharedName has been decoded
StartCall ==
    /\ call.reader = NoReader
    /\ \E function_name \in SharedFunctions : StartReader("__call__", 183, function_name)
StartListModels ==
    /\ call.reader = NoReader
    /\ StartReader("list_models", 127, None)

ReaderAt(op, pc) == call.reader.op = op /\ call.reader.pc = pc
\* the lookup has read `opt` as the `part` of the entry and goes on at pc
ReaderSees(part, opt, pc) ==
    /\ call' = [call EXCEPT
                  !.reader.seen = Append(@, [part |-> part, opt |-> opt]),
                  !.reader.pc = pc]
    /\ UNCHANGED <<models, model_functions, model_configs>>

\* if model_name not in self.models
TestModel ==
    /\ ReaderAt("__call__", 183)
    /\ ReaderSees("registered", [present |-> SharedName \in DOMAIN models],
                  IF SharedName \in DOMAIN models THEN 189 ELSE 0)

\* if function_name not in self.model_functions.get(model_name, {})
TestFunction ==
    /\ ReaderAt("__call__", 189)
    /\ LET found == call.reader.function_name
                        \in DOMAIN Get(model_functions, SharedName, EmptyDict)
       IN  ReaderSees("has_function", [present |-> found], IF found THEN 196 ELSE 192)

\* list(self.model_functions[model_name].keys()), or KeyError
AvailableFunctions ==
    /\ ReaderAt("__call__", 192)
    /\ ReaderSees("available",
                  IF SharedName \in DOMAIN model_functions
                  THEN [present |-> TRUE, value |-> DOMAIN model_functions[SharedName]]
                  ELSE [present |-> FALSE],
                  0)

\* target_function = self.model_functions[model_name][function_name], or
\* KeyError
GetTarget ==
    /\ ReaderAt("__call__", 196)
    /\ ReaderSees("target",
                  Opt(Get(model_functions, SharedName, EmptyDict),
                      call.reader.function_name),
                  0)

\* for model_name, model in self.models.items()
ListModel ==
    /\ ReaderAt("list_models", 127)
    /\ ReaderSees("model", Opt(models, SharedName),
                  IF SharedName \in DOMAIN models THEN 128 ELSE 0)

\* for functions in [self.model_functions.get(model_name, {})]
ListFunctions ==
    /\ ReaderAt("list_models", 128)
    /\ ReaderSees("functions",
                  [present |-> TRUE,
                   value |-> DOMAIN Get(model_functions, SharedName, EmptyDict)],
                  125)

\* "config": self.model_configs.get(model_name, {})
ListConfig ==
    /\ ReaderAt("list_models", 125)
    /\ ReaderSees("config",
                  [present |-> TRUE, value |-> Get(model_configs, SharedName, EmptyDict)],
                  0)

ReaderReturns ==
    /\ call.reader.op # "idle"
    /\ call.reader.pc = 0
    /\ call' = [call EXCEPT !.reader = NoReader]
    /\ UNCHANGED <<models, model_functions, model_configs>>

ConcNext ==
    \/ StartRegisterModel
    \/ StartRegisterModelFromConfig
    \/ StartUnregisterModel
    \/ StoreModel
    \/ StoreFunctions
    \/ StoreConfig
    \/ TestRegistered
    \/ DeleteModel
    \/ DeleteFunctions
    \/ DeleteConfig
    \/ WriterReturns
    \/ StartCall
    \/ StartListModels
    \/ TestModel
    \/ TestFunction
    \/ AvailableFunctions
    \/ GetTarget
    \/ ListModel
    \/ ListFunctions
    \/ ListConfig
    \/ ReaderReturns

ConcSpec == ConcInit /\ [][ConcNext]_vars

-----------------------------------------------------------------------------
(* Properties *)

\* the call in progress is a registration that returned normally
Registration ==
    /\ call.op \in {"register_model", "register_model_from_config"}
    /\ call.raised = NoExc
RegisteredName ==
    IF call.op = "register_model" THEN call.model_name ELSE call.model_config["name"]
\* the function specification the registration was given
DeclaredFunctions ==
    IF call.op = "register_model" THEN call.functions
    ELSE Get(call.model_config, "functions", ListSpec(<< >>))

\* C1: after a registration under a name that was already registered, the
\* registry lists that name with exactly the function names this
\* registration built, not the union with the names it had before.
C1_ReRegistrationReplaces ==
    (Registration /\ call.found.registered) =>
        LET listing == list_models(Self)
        IN  /\ RegisteredName \in DOMAIN listing
            /\ listing[RegisteredName].functions =
                   DOMAIN FunctionTable(models[RegisteredName], DeclaredFunctions)

\* a config registration over a directly registered entry that drops one of
\* the names the entry exposed
C1_Witness ==
    /\ Registration
    /\ call.op = "register_model_from_config"
    /\ call.found.registered
    /\ ~call.found.has_config
    /\ call.found.functions \ DOMAIN model_functions[RegisteredName] # {}

\* the request of the dispatcher call in progress
IsCall == call.op = "__call__"
Decodable == call.request.method = "GET" \/ call.request.body = "object"
Field(k) == Get(call.request.data, k, None)
Absent(v) == v \in {None, ""}
IsInvoke ==
    /\ IsCall
    /\ Decodable
    /\ Field("action") \notin {"list_models", "function_signature"}
\* the request names a registered model and a function of its table
Routable ==
    /\ ~Absent(Field("model"))
    /\ ~Absent(Field("function"))
    /\ Field("model") \in DOMAIN models
    /\ Field("function") \in DOMAIN model_functions[Field("model")]
Target == model_functions[Field("model")][Field("function")]
TargetCallable == Callable(Target.obj, Target.attr)
RequestParameters == Get(call.request.data, "parameters", DictVal(EmptyDict))
\* the keyword arguments do not fit the signature
Mismatch(sig, kw) ==
    \/ \E k \in DOMAIN kw : k \notin Range(sig.parameters)
    \/ \E k \in sig.required : k \notin DOMAIN kw

\* the request cannot be served: undecodable body, missing or unknown model
\* or function, or a target whose call raises
FailureCase ==
    \/ ~Decodable
    \/ /\ Decodable
       /\ Field("action") = "function_signature"
       /\ ~(Routable /\ TargetCallable)
    \/ /\ IsInvoke
       /\ \/ ~Routable
          \/ CallFunction(Target, RequestParameters).raised # NoExc

\* C2: every dispatcher call returns a response and raises nothing; the
\* response of a request that cannot be served carries a non-empty error
\* and no result, and the response of a served request carries no error.
C2_DispatcherNeverRaises ==
    IsCall =>
        /\ call.raised = NoExc
        /\ IF FailureCase
           THEN /\ "error" \in DOMAIN call.ret
                /\ call.ret.error # << >>
                /\ "result" \notin DOMAIN call.ret
           ELSE "error" \notin DOMAIN call.ret

\* a model method raised AttributeError in its body and the dispatcher
\* answered with the generic error response
C2_Witness ==
    /\ IsInvoke
    /\ Routable
    /\ CallFunction(Target, RequestParameters).raised = "AttributeError"
    /\ call.raised = NoExc
    /\ call.ret.type = "AttributeError"

\* C3: an invoke request is rejected by the first failing validation, in the
\* order: model missing, function missing, model unknown, function unknown.
C3_ValidationOrder ==
    IsInvoke =>
        LET m == Field("model")
            f == Field("function")
        IN  /\ Absent(m) =>
                /\ call.ret.error = <<"Model name is required">>
                /\ call.ret.available_models = DOMAIN models
            /\ (~Absent(m) /\ Absent(f)) =>
                call.ret = [error |-> <<"Function name is required">>]
            /\ (~Absent(m) /\ ~Absent(f) /\ m \notin DOMAIN models) =>
                /\ call.ret.error = <<"Model '", m, "' not found">>
                /\ call.ret.available_models = DOMAIN models
            /\ (~Absent(m) /\ ~Absent(f) /\ m \in DOMAIN models
                    /\ f \notin DOMAIN model_functions[m]) =>
                /\ call.ret.error = <<"Function '", f, "' not found for model '", m, "'">>
                /\ call.ret.available_functions = DOMAIN model_functions[m]

\* a request naming an unregistered model and no function was answered with
\* the missing function, while another model is registered
C3_Witness ==
    /\ IsInvoke
    /\ ~Absent(Field("model"))
    /\ Field("model") \notin DOMAIN models
    /\ Absent(Field("function"))
    /\ models # EmptyDict
    /\ call.ret.error = <<"Function name is required">>

\* C4: invoking a registered callable with keyword arguments that do not fit
\* its signature (unknown keyword, or required parameter missing) returns
\* the signature-mismatch response with the expected signature and the
\* provided parameters.
C4_SignatureMismatch ==
    (/\ IsInvoke
     /\ Routable
     /\ TargetCallable
     /\ RequestParameters.type = "dict"
     /\ Mismatch(Signature(Target.obj.cls, Target.attr), RequestParameters.items)) =>
        /\ call.raised = NoExc
        /\ "error" \in DOMAIN call.ret
        /\ SubSeq(call.ret.error, 1, 1) = <<"Function signature mismatch: ">>
        /\ call.ret.expected_signature = Signature(Target.obj.cls, Target.attr)
        /\ call.ret.provided_parameters = RequestParameters

\* a method was invoked with a keyword that its signature does not have,
\* all its required parameters being absent or not
C4_Witness ==
    /\ IsInvoke
    /\ Routable
    /\ TargetCallable
    /\ RequestParameters.type = "dict"
    /\ \E k \in DOMAIN RequestParameters.items :
          k \notin Range(Signature(Target.obj.cls, Target.attr).parameters)
    /\ "expected_signature" \in DOMAIN call.ret

\* C5: when the keyword arguments fit the signature and the method raises
\* in its body, the response is the generic error with the exception's
\* message and type, and has no expected_signature.
C5_BodyFailureIsGeneric ==
    (/\ IsInvoke
     /\ Routable
     /\ TargetCallable
     /\ RequestParameters.type = "dict"
     /\ ~Mismatch(Signature(Target.obj.cls, Target.attr), RequestParameters.items)
     /\ MethodBody(Target.obj, Target.attr, RequestParameters.items).raised # NoExc) =>
        /\ "expected_signature" \notin DOMAIN call.ret
        /\ "type" \in DOMAIN call.ret
        /\ call.ret.type = MethodBody(Target.obj, Target.attr, RequestParameters.items).raised
        /\ call.ret.error = MethodBody(Target.obj, Target.attr, RequestParameters.items).message

\* C6: get_function_signature answers "Model ... not found" exactly when
\* the model is not registered and "Function ... not found" exactly when
\* the model is registered without that function; for a registered pair it
\* returns no error, and the signature of the method when the bound
\* attribute is a method.
C6_SignatureNotFound ==
    call.op = "get_function_signature" =>
        LET m == call.model_name
            f == call.function_name
        IN  /\ m \notin DOMAIN models =>
                /\ call.raised = NoExc
                /\ call.ret = [error |-> <<"Model '", m, "' not found">>]
            /\ (m \in DOMAIN models /\ f \notin DOMAIN model_functions[m]) =>
                /\ call.raised = NoExc
                /\ call.ret = [error |-> <<"Function '", f, "' not found">>]
            /\ (m \in DOMAIN models /\ f \in DOMAIN model_functions[m]) =>
                /\ call.raised = NoExc => "error" \notin DOMAIN call.ret
                /\ Callable(model_functions[m][f].obj, model_functions[m][f].attr) =>
                      /\ call.raised = NoExc
                      /\ call.ret.name = f
                      /\ call.ret.parameters =
                            Signature(model_functions[m][f].obj.cls,
                                      model_functions[m][f].attr).parameters

\* the signature of a function missing from a registered model was asked
C6_Witness ==
    /\ call.op = "get_function_signature"
    /\ call.model_name \in DOMAIN models
    /\ call.function_name \notin DOMAIN model_functions[call.model_name]
    /\ model_functions[call.model_name] # EmptyDict
    /\ call.ret = [error |-> <<"Function '", call.function_name, "' not found">>]

\* C7: unregister_model raises nothing whether or not the name is
\* registered, leaves the registry without the name, and a second call
\* right after it raises nothing and changes nothing.
C7_UnregisterIdempotent ==
    call.op = "unregister_model" =>
        /\ call.raised = NoExc
        /\ call.model_name \notin DOMAIN models
        /\ call.model_name \notin DOMAIN model_functions
        /\ call.model_name \notin DOMAIN model_configs
        /\ unregister_model(Self, call.model_name).raised = NoExc
        /\ unregister_model(Self, call.model_name).self = Self

\* unregister_model was called for a name that is not registered while
\* another model is
C7_Witness ==
    /\ call.op = "unregister_model"
    /\ ~call.found.registered
    /\ models # EmptyDict

\* C8: a list_models request returns one entry per registered model name
\* and no other, each with exactly the exposed names of the model's
\* function table.
C8_ListModelsExact ==
    (IsCall /\ Decodable /\ Field("action") = "list_models") =>
        /\ DOMAIN call.ret = {"models"}
        /\ DOMAIN call.ret.models = DOMAIN models
        /\ \A n \in DOMAIN models :
              call.ret.models[n].functions = DOMAIN model_functions[n]

\* list_models was requested with both models registered, one of them
\* directly (without a stored configuration)
C8_Witness ==
    /\ IsCall
    /\ Decodable
    /\ Field("action") = "list_models"
    /\ DOMAIN call.ret.models = ModelNames
    /\ DOMAIN model_configs # ModelNames
    /\ \E n \in ModelNames : call.ret.models[n].functions # {}

\* the methods of the object's class other than the underscore-prefixed ones
PublicCallables(obj) == ClassMethods(obj.cls) \ {"__init__"}

\* C9: after a registration the listing of the name is entirely that of
\* this registration: its object's type, its function names, and its
\* configuration, which is empty after a direct register_model.
C9_TotalReplacement ==
    Registration =>
        LET entry == list_models(Self)[RegisteredName]
        IN  /\ call.op = "register_model" => models[RegisteredName] = call.model_instance
            /\ entry.type = IF call.op = "register_model" THEN call.model_instance.cls
                            ELSE call.model_config["class_path"][2]
            /\ entry.functions = DOMAIN model_functions[RegisteredName]
            /\ entry.config = IF call.op = "register_model"
                              THEN EmptyDict ELSE call.model_config

\* C10: a configuration entry without `functions` registers the model with
\* every public callable of the instantiated object.
C10_DefaultAutoDiscover ==
    (/\ Registration
     /\ call.op = "register_model_from_config"
     /\ "functions" \notin DOMAIN call.model_config) =>
        DOMAIN model_functions[RegisteredName] = PublicCallables(models[RegisteredName])

\* C11: after register_model without a function specification, the keys of
\* the model's table are exactly the object's methods whose names do not
\* start with an underscore, each bound to the attribute of its own name;
\* no instance data attribute and no underscore-prefixed name is a key.
C11_AutoDiscoverExact ==
    (call.op = "register_model" /\ call.functions.kind = "none") =>
        LET obj == call.model_instance
            table == model_functions[call.model_name]
        IN  /\ DOMAIN table = PublicCallables(obj)
            /\ \A n \in DOMAIN table : table[n] = GetAttr(obj, n)
            /\ DOMAIN table \cap DOMAIN obj.fields = {}
            /\ \A n \in DOMAIN table : ~StartsWithUnderscore(n)

\* an object with public data attributes and an underscore-prefixed method
\* was registered by discovery over an entry that had other names
C11_Witness ==
    /\ call.op = "register_model"
    /\ call.functions.kind = "none"
    /\ call.model_instance.cls = "TextProcessor"
    /\ "device" \in DOMAIN call.model_instance.fields
    /\ call.found.functions # {}
    /\ DOMAIN model_functions[call.model_name] = {"process_text", "summarize", "translate"}

\* the names a list or rename map declares, each with the method it names
Declared(functions) ==
    IF functions.kind = "list"
    THEN [n \in Range(functions.names) |-> n]
    ELSE functions.map
\* a POST invoke request for a function of a model
InvokeRequest(model_name, function_name, parameters) ==
    Request("POST", "object",
            [k \in {"model", "function", "parameters"} |->
                CASE k = "model" -> model_name
                  [] k = "function" -> function_name
                  [] k = "parameters" -> parameters])
\* the function-not-found response
FunctionNotFound(model_name, function_name) ==
    [error |-> <<"Function '", function_name, "' not found for model '", model_name, "'">>,
     available_functions |-> DOMAIN model_functions[model_name]]

\* C12: register_model with a list or a rename map raises nothing; a
\* declared name is a key of the table exactly when the object has the
\* method it names, bound to that method; and an invoke of a declared name
\* left out of the table is answered with the function-not-found response.
C12_MissingMethodsOmitted ==
    (call.op = "register_model" /\ call.functions.kind \in {"list", "dict"}) =>
        LET obj == call.model_instance
            table == model_functions[call.model_name]
            declared == Declared(call.functions)
        IN  /\ call.raised = NoExc
            /\ DOMAIN table \subseteq DOMAIN declared
            /\ \A n \in DOMAIN declared :
                  /\ n \in DOMAIN table <=> Callable(obj, declared[n])
                  /\ n \in DOMAIN table => table[n] = GetAttr(obj, declared[n])
                  /\ n \notin DOMAIN table =>
                        \A p \in Parameters :
                           __call__(Self, InvokeRequest(call.model_name, n, p)).ret
                              = FunctionNotFound(call.model_name, n)

\* C13: in every state every key of every model's function table is bound
\* to a method of the object registered under that model name.
C13_TableEntriesCallable ==
    \A m \in DOMAIN model_functions :
        \A n \in DOMAIN model_functions[m] :
            /\ m \in DOMAIN models
            /\ model_functions[m][n].obj = models[m]
            /\ Callable(model_functions[m][n].obj, model_functions[m][n].attr)

\* C14: after register_model with a rename map, an invoke of an exposed
\* name whose method exists calls that method of the object and no other,
\* and an invoke of the method's own name, when it is not an exposed name,
\* is answered with the function-not-found response without any call.
C14_RenameMapExposesOnly ==
    (call.op = "register_model" /\ call.functions.kind = "dict") =>
        LET obj == call.model_instance
            map == call.functions.map
            m == call.model_name
        IN  \A e \in DOMAIN map :
               Callable(obj, map[e]) =>
                  \A p \in Parameters :
                     /\ __call__(Self, InvokeRequest(m, e, p)).invoked
                            = <<GetAttr(obj, map[e])>>
                     /\ map[e] \notin DOMAIN map =>
                           LET r == __call__(Self, InvokeRequest(m, map[e], p))
                           IN  /\ r.ret = FunctionNotFound(m, map[e])
                               /\ r.invoked = << >>

\* a method was registered under another name over an entry that exposed
\* the method under its own name
C14_Witness ==
    /\ call.op = "register_model"
    /\ call.functions.kind = "dict"
    /\ \E e \in DOMAIN call.functions.map :
          /\ Callable(call.model_instance, call.functions.map[e])
          /\ call.functions.map[e] # e
          /\ call.functions.map[e] \in call.found.functions
          /\ DOMAIN model_functions[call.model_name] = {e}

\* the keyword arguments the request's parameters stand for: none when the
\* parameters are empty or absent
KeywordArguments ==
    IF RequestParameters.type = "dict" THEN RequestParameters.items ELSE EmptyDict
\* the parameters can be passed as keyword arguments
PassableParameters ==
    RequestParameters.type = "dict" \/ ~Truthy(RequestParameters)

\* C15: an invoke of a registered method whose call with the request's
\* parameters as keyword arguments returns a value is answered with exactly
\* {result, model, function, parameters}: result is that value, the other
\* fields are the request's (parameters being {} when absent); and no
\* response has both a result and an error.
C15_SuccessfulInvoke ==
    IsCall =>
        /\ ~("result" \in DOMAIN call.ret /\ "error" \in DOMAIN call.ret)
        /\ "result" \in DOMAIN call.ret =>
              /\ IsInvoke /\ Routable
              /\ DOMAIN call.ret = {"result", "model", "function", "parameters"}
        /\ (/\ IsInvoke
            /\ Routable
            /\ TargetCallable
            /\ PassableParameters
            /\ ~Mismatch(Signature(Target.obj.cls, Target.attr), KeywordArguments)
            /\ MethodBody(Target.obj, Target.attr, KeywordArguments).raised = NoExc) =>
               /\ call.raised = NoExc
               /\ call.ret = [result     |-> MethodBody(Target.obj, Target.attr,
                                                        KeywordArguments).ret,
                              model      |-> Field("model"),
                              function   |-> Field("function"),
                              parameters |-> RequestParameters]
               /\ call.invoked = <<Target>>

\* a renamed method was invoked with a keyword argument that its result
\* shows
C15_Witness ==
    /\ IsInvoke
    /\ Routable
    /\ Target.attr = "say_hello"
    /\ Field("function") = "hello"
    /\ RequestParameters = DictVal([k \in {"name"} |-> IntVal(2)])
    /\ call.ret.result = StrVal(<<"Hello ", "2">>)
    /\ call.ret.parameters = RequestParameters

\* the call in progress loaded a configuration file
IsLoad == call.op = "load_config"
\* the entries the loaded file lists
Listed == Get(call.document.data, "models", << >>)
\* the entry has the keys every entry must have
WellFormedEntry(e) == {"name", "class_path"} \subseteq DOMAIN e
\* the entry's class can be imported and instantiated
Resolvable(e) ==
    /\ WellFormedEntry(e)
    /\ _import_and_instantiate(e["class_path"], Get(e, "init_params", EmptyDict)).raised
           = NoExc

\* C16: after loading a well-formed configuration, every listed model whose
\* class resolves is registered with its configuration (the last such entry
\* of a name wins), whether or not another listed entry failed to resolve.
C16_ResolutionFailureIsLocal ==
    (/\ IsLoad
     /\ call.document.kind = "mapping"
     /\ \A i \in DOMAIN Listed : WellFormedEntry(Listed[i])) =>
        \A i \in DOMAIN Listed :
            (/\ Resolvable(Listed[i])
             /\ \A j \in DOMAIN Listed :
                   (j > i /\ Resolvable(Listed[j])) => Listed[j]["name"] # Listed[i]["name"]) =>
                /\ Listed[i]["name"] \in DOMAIN models
                /\ Listed[i]["name"] \in DOMAIN model_configs
                /\ model_configs[Listed[i]["name"]] = Listed[i]

\* the loaded file is not YAML, or one of its entries lacks `name` or
\* `class_path`
Offending(document) ==
    \/ document.kind = "malformed"
    \/ \E i \in DOMAIN Get(document.data, "models", << >>) :
          ~WellFormedEntry(document.data["models"][i])

\* C17: loading a file that is malformed or has an entry without `name` or
\* `class_path` raises to the caller and leaves the registry as it was.
C17_SchemaFailureLeavesNoPartialRegistry ==
    [][(call'.op = "load_config" /\ call = Idle /\ Offending(call'.document)) =>
          /\ call'.raised # NoExc
          /\ UNCHANGED <<models, model_functions, model_configs>>]_vars

\* the value of an optional part, {} when it is missing
ValueOf(opt) == IF opt.present THEN opt.value ELSE EmptyDict
\* what the lookup read is what it would read from entry E
ConsistentWith(E, read, function_name) ==
    CASE read.part = "registered"   -> read.opt.present = E.model.present
      [] read.part = "has_function" ->
            read.opt.present = (function_name \in DOMAIN ValueOf(E.table))
      [] read.part = "available"    ->
            /\ read.opt.present = E.table.present
            /\ read.opt.present => read.opt.value = DOMAIN E.table.value
      [] read.part = "target"       -> read.opt = Opt(ValueOf(E.table), function_name)
      [] read.part = "model"        -> read.opt = E.model
      [] read.part = "functions"    -> read.opt.value = DOMAIN ValueOf(E.table)
      [] read.part = "config"       -> read.opt.value = ValueOf(E.config)
\* the entries a lookup may observe: those around the one mutation it
\* overlaps, or the current one when it overlaps none
ObservableEntries ==
    IF call.reader.overlap THEN {call.mutation.pre, call.mutation.post}
    ELSE {Entry(Self, SharedName)}

\* C18: everything a dispatcher request or list_models reads about a model
\* name while one register_model, register_model_from_config or
\* unregister_model for that name runs is read from one entry: the entry
\* before the mutation or the entry after it.
C18_LookupsSeeWholeEntries ==
    call.reader.op # "idle" =>
        \E E \in ObservableEntries :
            \A i \in DOMAIN call.reader.seen :
                ConsistentWith(E, call.reader.seen[i], call.reader.function_name)

\* C19: a dispatcher request, a list_models call and a
\* get_function_signature call, whatever their outcome, leave the
\* registered names, every function table and every stored configuration
\* as they were.
C19_DispatcherReadsOnly ==
    [][(call = Idle /\ call'.op \in {"__call__", "list_models", "get_function_signature"})
          => UNCHANGED <<models, model_functions, model_configs>>]_vars

\* a request failed in the call of its target while the registry held a
\* stored configuration and a second model
C19_Witness ==
    /\ IsInvoke
    /\ Routable
    /\ CallFunction(Target, RequestParameters).raised # NoExc
    /\ "error" \in DOMAIN call.ret
    /\ DOMAIN models = ModelNames
    /\ model_configs # EmptyDict

\* the request was rejected by one of the four validations of an invoke
RejectedByValidation == IsInvoke /\ ~Routable

\* C20 as stated: every request passes through Received, Parsed, Routed,
\* then Invoked or Rejected, then Responded; the target is called at most
\* once, only on the Invoked branch, and never for list_models,
\* function_signature or a rejected request.
C20_EveryRequestFollowsThePath ==
    IsCall =>
        /\ call.path \in {<<"Received", "Parsed", "Routed", "Invoked", "Responded">>,
                          <<"Received", "Parsed", "Routed", "Rejected", "Responded">>}
        /\ Len(call.invoked) <= 1
        /\ call.invoked # << >> => call.path[4] = "Invoked"

\* C20, amended: every request passes through the positions in the order
\* Received, Parsed, Routed, Invoked or Rejected, Responded, where an
\* undecodable request skips to Responded and a list_models or complete
\* function_signature request goes from Routed to Responded; the target is
\* called at most once, exactly on the Invoked branch, and never for
\* list_models, function_signature or a request rejected by a validation.
C20_PathAndSingleInvocation ==
    IsCall =>
        /\ call.path \in {<<"Received", "Responded">>,
                          <<"Received", "Parsed", "Responded">>,
                          <<"Received", "Parsed", "Routed", "Responded">>,
                          <<"Received", "Parsed", "Routed", "Invoked", "Responded">>,
                          <<"Received", "Parsed", "Routed", "Rejected", "Responded">>}
        /\ Len(call.path) < 5 => (~Decodable \/ ~IsInvoke)
        /\ Len(call.invoked) <= 1
        /\ call.invoked # << >> <=> (Len(call.path) = 5 /\ call.path[4] = "Invoked")
        /\ call.invoked # << >> => (IsInvoke /\ Routable /\ call.invoked = <<Target>>)
        /\ (Decodable /\ Field("action") \in {"list_models", "function_signature"}) =>
              call.invoked = << >>
        /\ RejectedByValidation =>
              (call.invoked = << >> /\ call.path[4] = "Rejected")

\* a request for a function its model does not expose was rejected without
\* a call, the model exposing other functions
C20_Witness ==
    /\ RejectedByValidation
    /\ ~Absent(Field("model"))
    /\ ~Absent(Field("function"))
    /\ Field("model") \in DOMAIN models
    /\ model_functions[Field("model")] # EmptyDict
    /\ call.path = <<"Received", "Parsed", "Routed", "Rejected", "Responded">>
    /\ call.invoked = << >>

\* the call in progress is one of the methods that change the registry
IsMutation ==
    call.op \in {"register_model", "register_model_from_config",
                 "unregister_model", "load_config"}

\* C21: after each register_model, register_model_from_config,
\* unregister_model and load_config, whether it returned or raised, the
\* names with a model object are the names with a function table, and every
\* name with a stored configuration has a model object.
C21_KeySetsConsistent ==
    IsMutation =>
        /\ DOMAIN models = DOMAIN model_functions
        /\ DOMAIN model_configs \subseteq DOMAIN models

\* load_config stopped at an entry it could not register after registering
\* another, while a model registered without configuration was there
C21_Witness ==
    /\ call.op = "load_config"
    /\ call.warning # NoExc
    /\ DOMAIN models = ModelNames
    /\ Cardinality(DOMAIN model_configs) = 1
    /\ \E i \in DOMAIN Get(call.document.data, "models", << >>) :
          /\ "name" \in DOMAIN call.document.data["models"][i]
          /\ call.document.data["models"][i]["name"] \in DOMAIN model_configs

\* the entry is well formed and its class cannot be imported or instantiated
ResolutionFails(e) == WellFormedEntry(e) /\ ~Resolvable(e)

\* C22: a register_model_from_config whose class cannot be imported or
\* instantiated raises ValueError with the text "Failed to import and
\* instantiate <class_path>: <text of the inner exception>", and leaves the
\* three registry dictionaries as they were, the entry of the same name
\* included.
C22_FailedRegistrationChangesNothing ==
    [][(/\ call = Idle
        /\ call'.op = "register_model_from_config"
        /\ ResolutionFails(call'.model_config)) =>
          LET class_path == call'.model_config["class_path"]
              message == call'.message
          IN  /\ call'.raised = "ValueError"
              /\ Len(message) = 4
              /\ message[1] = "Failed to import and instantiate "
              /\ message[2] = class_path
              /\ message[3] = ": "
              /\ message[4] # << >>
              /\ Len(class_path) < 2 => message[4][1] = "not enough values to unpack (expected 2, got 1)"
              /\ class_path = <<"nomodule", "Thing">> =>
                    message[4] = <<"No module named '", "nomodule", "'">>
              /\ class_path = <<"testClass", "Missing">> =>
                    message[4] = <<"module '", "testClass", "' has no attribute '", "Missing", "'">>
              /\ UNCHANGED <<models, model_functions, model_configs>>]_vars

\* a configuration whose constructor arguments do not fit the class failed
\* to register over an entry of the same name that has a stored
\* configuration and functions
C22_Witness ==
    /\ call.op = "register_model_from_config"
    /\ call.raised = "ValueError"
    /\ call.model_config["class_path"] = <<"example_usage", "TextProcessor">>
    /\ call.found.registered
    /\ call.found.has_config
    /\ call.found.functions # {}
    /\ model_configs[call.model_config["name"]] # call.model_config

\* the name a registration or unregistration is about, None when the
\* configuration has no name
MutatedName(c) ==
    IF c.op = "register_model_from_config" THEN Get(c.model_config, "name", None)
    ELSE c.model_name
\* the entry of model_name in the next state
NextEntry(model_name) ==
    [model  |-> Opt(models', model_name),
     table  |-> Opt(model_functions', model_name),
     config |-> Opt(model_configs', model_name)]

\* C23: register_model, register_model_from_config and unregister_model
\* for a name leave the entry of every other name as it was: its model
\* object, its function table, its stored configuration, and whether it is
\* registered.
C23_OtherEntriesUnchanged ==
    [][(/\ call = Idle
        /\ call'.op \in {"register_model", "register_model_from_config",
                         "unregister_model"}) =>
          \A other \in ModelNames \ {MutatedName(call')} :
              NextEntry(other) = Entry(Self, other)]_vars

\* a model was registered over its own entry while the other name held a
\* model registered from a configuration
C23_Witness ==
    /\ call.op = "register_model"
    /\ call.found.registered
    /\ \E other \in ModelNames \ {call.model_name} :
          /\ other \in DOMAIN model_configs
          /\ model_functions[other] # EmptyDict
          /\ models[other] # call.model_instance

\* the request names a model name that is not registered
NamesUnregistered ==
    /\ IsCall
    /\ Decodable
    /\ Field("model") \in ModelNames \ DOMAIN models
ModelNotFound(model_name) == <<"Model '", model_name, "' not found">>

\* C24 as stated: while a name is not registered, every invoke request
\* naming it is answered "Model ... not found" with the name absent from
\* available_models and without any call, and every function_signature
\* request naming it is answered with the model-not-found error.
C24_EveryRequestReportsModelNotFound ==
    NamesUnregistered =>
        IF Field("action") = "function_signature"
        THEN call.ret = [error |-> ModelNotFound(Field("model"))]
        ELSE Field("action") # "list_models" =>
                /\ call.ret.error = ModelNotFound(Field("model"))
                /\ Field("model") \notin call.ret.available_models
                /\ call.invoked = << >>

\* what the lookups answer while a name is not registered, for requests
\* that name a function as well
UnregisteredIsNotFound ==
    /\ (NamesUnregistered /\ ~Absent(Field("function"))) =>
          IF Field("action") = "function_signature"
          THEN call.ret = [error |-> ModelNotFound(Field("model"))]
          ELSE Field("action") # "list_models" =>
                  /\ call.ret.error = ModelNotFound(Field("model"))
                  /\ call.ret.available_models = DOMAIN models
                  /\ Field("model") \notin call.ret.available_models
    /\ (IsCall /\ Decodable /\ Field("action") = "list_models") =>
          DOMAIN call.ret.models = DOMAIN models
    /\ (call.op = "list_models") => DOMAIN call.ret = DOMAIN models
    /\ (call.op = "get_function_signature" /\ call.model_name \notin DOMAIN models) =>
          call.ret = [error |-> ModelNotFound(call.model_name)]
    /\ IsCall =>
          \A i \in DOMAIN call.invoked :
              /\ Field("model") \in DOMAIN models
              /\ call.invoked[i].obj = models[Field("model")]
\* a completed unregister_model leaves the name unregistered
UnregisterRemoves ==
    (call.op = "unregister_model" /\ call.raised = NoExc) =>
        /\ call.model_name \notin DOMAIN models
        /\ call.model_name \notin DOMAIN model_functions
        /\ call.model_name \notin DOMAIN model_configs
\* the entries a configuration file lists under a name
ListsName(document, model_name) ==
    \E i \in DOMAIN Get(document.data, "models", << >>) :
        Get(document.data["models"][i], "name", None) = model_name
\* a name becomes registered only by a registration under that name
OnlyRegistrationRegisters ==
    \A n \in ModelNames :
        (n \notin DOMAIN models /\ n \in DOMAIN models') =>
            \/ /\ call'.op \in {"register_model", "register_model_from_config"}
               /\ MutatedName(call') = n
            \/ /\ call'.op = "load_config"
               /\ ListsName(call'.document, n)

\* C24, amended: unregister_model(n) leaves n unregistered, n stays so
\* until a registration under n, and while it is unregistered every invoke
\* request naming n and a function is answered "Model 'n' not found" with
\* the registered names as available_models, every function_signature
\* request naming n and a function is answered with the model-not-found
\* error, list_models omits n, and the dispatcher calls only attributes of
\* the object registered under the requested name.
C24_UnregisteredUntilRegistered ==
    /\ [](UnregisteredIsNotFound /\ UnregisterRemoves)
    /\ [][OnlyRegistrationRegisters]_vars

\* after a model that exposed the requested function was unregistered and
\* not registered again, a request for it was answered model-not-found
\* while the other model was registered
C24_Witness ==
    /\ NamesUnregistered
    /\ Field("action") # "function_signature"
    /\ ~Absent(Field("function"))
    /\ models # EmptyDict
    /\ call.ret.error = ModelNotFound(Field("model"))
    /\ call.invoked = << >>

====
